---- MODULE Spec2Model ----
(***************************************************************************)
(* Model of the deployment orchestration core of aws-syndicate:            *)
(*   syndicate/core/resources/lambda_resource.py                           *)
(*   syndicate/core/resources/kinesis_resource.py                          *)
(* A fan-out (create_lambda, create_kinesis_stream, remove_lambdas,        *)
(* remove_kinesis_streams) hands a list of descriptors to a bounded pool;  *)
(* every task walks through the provider calls of its handler.             *)
(***************************************************************************)
EXTENDS Integers, Sequences, FiniteSets, TLC

VARIABLES
    op,             \* the fan-out entry point that was called
    args,           \* its argument list: a sequence of descriptors
    run,            \* 1 for the first call of the entry point, 2 for the next
    pc,             \* pc[t]: position of task t inside its handler
    idx,            \* idx[t]: index of the next trigger spec of task t
    unresolved_exec,\* unresolved_exec[t]: headroom as read by task t
    result,         \* result[t]: what the handler returned or raised
    calls,          \* calls[t]: provider calls issued by task t in this run
    logs,           \* logs[t]: log levels written by task t in this run
    invoked,        \* invoked[t]: binders invoked by task t in this run
    prev,           \* prev[t]: result and calls of task t in the previous run
    lambdas,        \* provider: configuration of each function name
    streams,        \* provider: status of each stream name
    headroom,       \* provider: unreserved concurrent executions
    esm,            \* provider: event source mappings
    table_stream,   \* provider: tables with change-stream capture enabled
    log_groups,     \* provider: log group names
    world,          \* provider facts no handler changes
    fault,          \* a provider call that answers with an error
    start,          \* the provider's functions, streams and log groups when the run began
    responses       \* responses[t]: the response task t holds from its re-fetch

vars == <<op, args, run, pc, idx, unresolved_exec, result, calls, logs,
          invoked, prev, lambdas, streams, headroom, esm, table_stream,
          log_groups, world, fault, start, responses>>

-----------------------------------------------------------------------------
(* Bounds of the model *)

MaxRuns == 2
MaxTriggers == 2
MaxHeadroom == 2
Extra == 1

(* Worker caps of the pools *)
CreateLambdaWorkers == 3
CreateStreamWorkers == 5
RemoveLambdaWorkers == 5
RemoveStreamWorkers == 5

-----------------------------------------------------------------------------
(* Names and configuration *)

FnName == <<"fn1", "fn2", "fn3", "fn4", "fn5", "fn6", "fn7", "fn8">>
StreamName == <<"s1", "s2", "s3", "s4", "s5", "s6", "s7", "s8">>
FnNames == {FnName[i] : i \in 1..Len(FnName)}
StreamNames == {StreamName[i] : i \in 1..Len(StreamName)}

REGION == "region"
ACCOUNT_ID == "account"
DEPLOY_TARGET_BUCKET == "deploy-bucket"
S3_PATH_NAME == "s3_path"

None == [none |-> TRUE]
NoFault == [op |-> "none", target |-> "none", code |-> "none"]

Call(o, target, arg) == [op |-> o, target |-> target, arg |-> arg]

(* The provider's answer to a call: the injected error, the provider's own *)
(* refusal of a call its state does not allow, or ok.                       *)
Answer(c) ==
    IF fault.op = c.op /\ fault.target = c.target THEN fault.code
    ELSE CASE c.op = "delete_lambda" /\ ~lambdas[c.target].exists ->
                "ResourceNotFoundException"
           [] c.op = "remove_stream" /\ streams[c.target] \in {"ABSENT", "DELETING"} ->
                "ResourceNotFoundException"
           [] c.op = "create_lambda" /\ lambdas[c.target].exists ->
                "ResourceConflictException"
           [] c.op = "create_stream" /\ streams[c.target] # "ABSENT" ->
                "ResourceInUseException"
           [] c.op = "put_function_concurrency"
              /\ c.arg.concurrent_executions > headroom ->
                "InvalidParameterValueException"
           [] OTHER -> "ok"

Faulty(c) == Answer(c) # "ok"

(* time.sleep(seconds), recorded among the calls of the handler that waits *)
Sleep(seconds) == Call("sleep", "time", [seconds |-> seconds])

(* The calls of a script that reach the provider: all of them up to and     *)
(* including the first one the provider answers with an error.              *)
Issued(script) ==
    LET refused == {i \in 1..Len(script) : Faulty(script[i])}
    IN  IF refused = {} THEN script
        ELSE SubSeq(script, 1, CHOOSE i \in refused : \A j \in refused : i <= j)

Raised(script) == \E i \in 1..Len(script) : Faulty(script[i])

(* The calls of a script the provider carried out. *)
Served(script) ==
    LET iss == Issued(script)
    IN  IF Raised(script) THEN SubSeq(iss, 1, Len(iss) - 1) ELSE iss

Ops(cs) == {cs[i].op : i \in 1..Len(cs)}

MutatingOps ==
    {"create_lambda", "put_function_concurrency", "add_event_source",
     "enable_table_stream", "add_rule_target", "add_invocation_permission",
     "configure_event_source_for_lambda", "create_sns_subscription_for_lambda",
     "attach_inline_policy", "create_stream", "delete_lambda",
     "remove_trigger", "delete_log_group_name", "remove_stream"}

-----------------------------------------------------------------------------
(* Shared helpers *)

Has(m, k) == k \in DOMAIN m

(* validate_params: every required parameter is a key of the meta *)
validate_params(meta, required) == \A p \in required : Has(meta, p)

(* A text the code transforms is held as the sequence of its characters:   *)
(* 'Lang1' is <<"L", "a", "n", "g", "1">> and the empty string is <<>>.     *)
(* The characters are those of Latin-1; UpperCase lists every one of them  *)
(* that str.lower changes, LowerCase what it is changed to.                *)
UpperCase ==
    <<"A", "B", "C", "D", "E", "F", "G", "H", "I", "J", "K", "L", "M",
      "N", "O", "P", "Q", "R", "S", "T", "U", "V", "W", "X", "Y", "Z",
      "À", "Á", "Â", "Ã", "Ä", "Å", "Æ", "Ç", "È", "É", "Ê", "Ë", "Ì",
      "Í", "Î", "Ï", "Ð", "Ñ", "Ò", "Ó", "Ô", "Õ", "Ö", "Ø", "Ù", "Ú",
      "Û", "Ü", "Ý", "Þ">>

LowerCase ==
    <<"a", "b", "c", "d", "e", "f", "g", "h", "i", "j", "k", "l", "m",
      "n", "o", "p", "q", "r", "s", "t", "u", "v", "w", "x", "y", "z",
      "à", "á", "â", "ã", "ä", "å", "æ", "ç", "è", "é", "ê", "ë", "ì",
      "í", "î", "ï", "ð", "ñ", "ò", "ó", "ô", "õ", "ö", "ø", "ù", "ú",
      "û", "ü", "ý", "þ">>

LowerChar(ch) ==
    IF \E i \in 1..Len(UpperCase) : UpperCase[i] = ch
    THEN LowerCase[CHOOSE i \in 1..Len(UpperCase) : UpperCase[i] = ch]
    ELSE ch

(* str.lower *)
Lower(s) == [i \in 1..Len(s) |-> LowerChar(s[i])]

LambdaArn(name) == <<"arn", "aws", "lambda", REGION, ACCOUNT_ID, name>>
StreamArn(name) == <<"arn", "aws", "kinesis", REGION, ACCOUNT_ID, name>>
TableStreamArn(name) == <<"arn", "aws", "dynamodb", REGION, ACCOUNT_ID, name>>
RuleArn(name) == <<"arn", "aws", "events", REGION, ACCOUNT_ID, name>>

build_description_obj(response, name, meta) ==
    [resource_name |-> name, resource_meta |-> meta, response |-> response]

Without(m, k) == [x \in DOMAIN m \ {k} |-> m[x]]

-----------------------------------------------------------------------------
(* Trigger binders.  A binder yields the provider calls it makes against   *)
(* the current provider state (script), the error it raises by itself      *)
(* once they are made (error), what it logs when nothing is raised and     *)
(* where the handler goes on (then): back to the trigger loop, or into the *)
(* rest of a binder that waits.                                            *)

Binding(script, error, log) ==
    [script |-> script, error |-> error, logs |-> log, then |-> "triggers"]

_create_dynamodb_trigger_from_meta(lambda_name, lambda_arn, role_name, trigger_meta) ==
    IF ~validate_params(trigger_meta, {"target_table", "batch_size"})
    THEN Binding(<<>>, "ValidationError", <<>>)
    ELSE LET table_name == trigger_meta["target_table"]
             enable == IF table_name \in table_stream THEN <<>>
                       ELSE <<Call("enable_table_stream", table_name, None)>>
         IN  Binding(
               <<Call("is_stream_enabled", table_name, None)>> \o enable \o
               <<Call("get_table_stream_arn", table_name, None),
                 Call("add_event_source", lambda_name,
                      [source |-> TableStreamArn(table_name),
                       batch_size |-> trigger_meta["batch_size"],
                       start_position |-> "LATEST"])>>,
               "none", <<"info">>)

(* Variant: a missing queue is treated as a hard dependency *)
_create_sqs_trigger_strict(lambda_name, lambda_arn, role_name, trigger_meta) ==
    IF ~validate_params(trigger_meta, {"target_queue", "batch_size"})
    THEN Binding(<<>>, "ValidationError", <<>>)
    ELSE IF trigger_meta["target_queue"] \notin world.queues
    THEN Binding(<<Call("get_queue_url", trigger_meta["target_queue"], None)>>,
                 "DependencyError", <<>>)
    ELSE Binding(
           <<Call("get_queue_url", trigger_meta["target_queue"], None),
             Call("add_event_source", lambda_name,
                  [source |-> <<"arn", "aws", "sqs", REGION, ACCOUNT_ID,
                                trigger_meta["target_queue"]>>,
                   batch_size |-> trigger_meta["batch_size"],
                   start_position |-> "None"])>>,
           "none", <<"info">>)

_create_sqs_trigger_from_meta(lambda_name, lambda_arn, role_name, trigger_meta) ==
    IF ~validate_params(trigger_meta, {"target_queue", "batch_size"})
    THEN Binding(<<>>, "ValidationError", <<>>)
    ELSE LET target_queue == trigger_meta["target_queue"]
             queue_arn == <<"arn", "aws", "sqs", REGION, ACCOUNT_ID, target_queue>>
         IN  IF target_queue \notin world.queues
             THEN Binding(<<Call("get_queue_url", target_queue, None)>>,
                          "none", <<"debug">>)
             ELSE Binding(
                   <<Call("get_queue_url", target_queue, None),
                     Call("add_event_source", lambda_name,
                          [source |-> queue_arn,
                           batch_size |-> trigger_meta["batch_size"],
                           start_position |-> "None"])>>,
                   "none", <<"info">>)

_create_cloud_watch_trigger_from_meta(lambda_name, lambda_arn, role_name, trigger_meta) ==
    IF ~validate_params(trigger_meta, {"target_rule"})
    THEN Binding(<<>>, "ValidationError", <<>>)
    ELSE LET rule_name == trigger_meta["target_rule"]
         IN  Binding(
               <<Call("get_rule_arn", rule_name, None),
                 Call("add_rule_target", rule_name, [arn |-> lambda_arn]),
                 Call("add_invocation_permission", lambda_name,
                      [principal |-> "events.amazonaws.com",
                       source |-> RuleArn(rule_name)])>>,
               "none", <<"info">>)

_create_s3_trigger_from_meta(lambda_name, lambda_arn, role_name, trigger_meta) ==
    IF ~validate_params(trigger_meta, {"target_bucket", "s3_events"})
    THEN Binding(<<>>, "ValidationError", <<>>)
    ELSE LET target_bucket == trigger_meta["target_bucket"]
         IN  IF target_bucket \notin world.buckets
             THEN Binding(<<Call("is_bucket_exists", target_bucket, None)>>,
                          "none", <<"error">>)
             ELSE Binding(
                   <<Call("is_bucket_exists", target_bucket, None),
                     Call("add_invocation_permission", lambda_name,
                          [principal |-> "s3.amazonaws.com",
                           source |-> <<"arn", "aws", "s3", "", "", target_bucket>>]),
                     Call("configure_event_source_for_lambda", target_bucket,
                          [lambda_name |-> lambda_name,
                           s3_events |-> trigger_meta["s3_events"]])>>,
                   "none", <<"info">>)

_create_sns_topic_trigger_from_meta(lambda_name, lambda_arn, role_name, trigger_meta) ==
    IF ~validate_params(trigger_meta, {"target_topic"})
    THEN Binding(<<>>, "ValidationError", <<>>)
    ELSE LET topic_name == trigger_meta["target_topic"]
             region == IF Has(trigger_meta, "region")
                       THEN trigger_meta["region"] ELSE "None"
         IN  Binding(
               <<Call("create_sns_subscription_for_lambda", topic_name,
                      [arn |-> lambda_arn, region |-> region])>>,
               "none", <<"info">>)

_add_kinesis_event_source(lambda_name, stream_arn, trigger_meta) ==
    <<Call("add_event_source", lambda_name,
           [source |-> stream_arn,
            batch_size |-> trigger_meta["batch_size"],
            start_position |-> trigger_meta["starting_position"]])>>

(* Variant: the function is subscribed without the policy being attached *)
_create_kinesis_stream_trigger_no_policy(lambda_name, lambda_arn, role_name, trigger_meta) ==
    IF ~validate_params(trigger_meta,
                        {"target_stream", "batch_size", "starting_position"})
    THEN Binding(<<>>, "ValidationError", <<>>)
    ELSE LET stream_name == trigger_meta["target_stream"]
         IN  IF streams[stream_name] = "ABSENT"
             THEN Binding(<<Call("get_stream", stream_name, None)>>,
                          "TypeError", <<>>)
             ELSE [Binding(<<Call("get_stream", stream_name, None)>>
                           \o (IF streams[stream_name] # "ACTIVE"
                               THEN <<Sleep(120)>> ELSE <<>>),
                           "none",
                           IF streams[stream_name] # "ACTIVE"
                           THEN <<"debug">> ELSE <<>>)
                   EXCEPT !.then = "kinesis_subscribe"]

(* Lines 220-232: validation, the read of the stream and, when the stream  *)
(* is not active, the wait of 120 seconds; the binder then goes on to the  *)
(* policy.                                                                  *)
_create_kinesis_stream_trigger_from_meta(lambda_name, lambda_arn, role_name, trigger_meta) ==
    IF ~validate_params(trigger_meta,
                        {"target_stream", "batch_size", "starting_position"})
    THEN Binding(<<>>, "ValidationError", <<>>)
    ELSE LET stream_name == trigger_meta["target_stream"]
         IN  IF streams[stream_name] = "ABSENT"
             THEN Binding(<<Call("get_stream", stream_name, None)>>,
                          "TypeError", <<>>)
             ELSE [Binding(<<Call("get_stream", stream_name, None)>>
                           \o (IF streams[stream_name] # "ACTIVE"
                               THEN <<Sleep(120)>> ELSE <<>>),
                           "none",
                           IF streams[stream_name] # "ACTIVE"
                           THEN <<"debug">> ELSE <<>>)
                   EXCEPT !.then = "kinesis_policy"]

(* Lines 235-267: the inline policy and the wait of 10 seconds *)
kinesis_policy(lambda_name, lambda_arn, role_name, stream_name) ==
    <<Call("attach_inline_policy", role_name,
           [policy_name |-> <<stream_name, "KinesisTo", lambda_name, "Lambda">>,
            resource |-> StreamArn(stream_name),
            invoke |-> lambda_arn]),
      Sleep(10)>>

TriggerTags ==
    {"dynamodb_trigger", "cloudwatch_rule_trigger", "s3_trigger",
     "sns_topic_trigger", "kinesis_trigger", "sqs_trigger"}

(* Variant: a tag that is not registered falls back to the queue binder *)
CREATE_TRIGGER_fallback(trigger_type) ==
    CASE trigger_type = "dynamodb_trigger" -> "_create_dynamodb_trigger_from_meta"
      [] trigger_type = "cloudwatch_rule_trigger" -> "_create_cloud_watch_trigger_from_meta"
      [] trigger_type = "s3_trigger" -> "_create_s3_trigger_from_meta"
      [] trigger_type = "sns_topic_trigger" -> "_create_sns_topic_trigger_from_meta"
      [] trigger_type = "kinesis_trigger" -> "_create_kinesis_stream_trigger_from_meta"
      [] OTHER -> "_create_sqs_trigger_from_meta"

(* The dispatch table; the lookup of a tag that is not registered raises   *)
(* KeyError.                                                               *)
CREATE_TRIGGER(trigger_type) ==
    CASE trigger_type = "dynamodb_trigger" -> "_create_dynamodb_trigger_from_meta"
      [] trigger_type = "cloudwatch_rule_trigger" -> "_create_cloud_watch_trigger_from_meta"
      [] trigger_type = "s3_trigger" -> "_create_s3_trigger_from_meta"
      [] trigger_type = "sns_topic_trigger" -> "_create_sns_topic_trigger_from_meta"
      [] trigger_type = "kinesis_trigger" -> "_create_kinesis_stream_trigger_from_meta"
      [] trigger_type = "sqs_trigger" -> "_create_sqs_trigger_from_meta"
      [] OTHER -> "KeyError"

(* func(name, lambda_arn, role_name, trigger_meta) for a registered binder *)
func(binder, lambda_name, lambda_arn, role_name, trigger_meta) ==
    CASE binder = "_create_dynamodb_trigger_from_meta" ->
           _create_dynamodb_trigger_from_meta(lambda_name, lambda_arn, role_name, trigger_meta)
      [] binder = "_create_cloud_watch_trigger_from_meta" ->
           _create_cloud_watch_trigger_from_meta(lambda_name, lambda_arn, role_name, trigger_meta)
      [] binder = "_create_s3_trigger_from_meta" ->
           _create_s3_trigger_from_meta(lambda_name, lambda_arn, role_name, trigger_meta)
      [] binder = "_create_sns_topic_trigger_from_meta" ->
           _create_sns_topic_trigger_from_meta(lambda_name, lambda_arn, role_name, trigger_meta)
      [] binder = "_create_kinesis_stream_trigger_from_meta" ->
           _create_kinesis_stream_trigger_from_meta(lambda_name, lambda_arn, role_name, trigger_meta)
      [] binder = "_create_sqs_trigger_from_meta" ->
           _create_sqs_trigger_from_meta(lambda_name, lambda_arn, role_name, trigger_meta)

-----------------------------------------------------------------------------
(* Provider reads *)

NoFunction == [exists |-> FALSE]
NoKey == <<>>

RoleArn(role_name) == <<"arn", "aws", "iam", "", ACCOUNT_ID, role_name>>

get_function(name) ==
    IF lambdas[name].exists
    THEN [Configuration |->
            [FunctionArn |-> LambdaArn(name), FunctionName |-> name,
             Runtime |-> lambdas[name].runtime,
             MemorySize |-> lambdas[name].memory]]
    ELSE None

(* get_stream answers with the provider's describe-stream document: the   *)
(* status and the ARN sit under StreamDescription.                         *)
get_stream(name) ==
    IF streams[name] = "ABSENT" THEN None
    ELSE [StreamDescription |->
            [StreamARN |-> StreamArn(name), StreamName |-> name,
             StreamStatus |-> streams[name]]]

-----------------------------------------------------------------------------
(* Results of a handler *)

Pending == [status |-> "pending", key |-> NoKey, value |-> None, err |-> "none"]
Returned(key, value) == [status |-> "ok", key |-> key, value |-> value, err |-> "none"]
ReturnedNone == [status |-> "ok", key |-> NoKey, value |-> None, err |-> "none"]
Error(e) == [status |-> "error", key |-> NoKey, value |-> None, err |-> e]

describe_lambda(name, meta, response) ==
    LET arn == response.Configuration.FunctionArn
        rest == [Configuration |-> Without(response.Configuration, "FunctionArn")]
    IN  Returned(arn, build_description_obj(rest, name, meta))

Tasks == 1..Len(args)

Step(t, newpc, newcalls, newlogs) ==
    /\ pc' = [pc EXCEPT ![t] = newpc]
    /\ calls' = [calls EXCEPT ![t] = @ \o newcalls]
    /\ logs' = [logs EXCEPT ![t] = @ \o newlogs]

Finish(t, res, newcalls, newlogs) ==
    /\ Step(t, "done", newcalls, newlogs)
    /\ result' = [result EXCEPT ![t] = res]

-----------------------------------------------------------------------------
(* _create_lambda_from_meta *)

req_params == {"iam_role_name", "runtime", "memory", "timeout", "func_name"}

(* Lines 54-72: validation, artifact check, existence check, role lookup.  *)
(* next is "create" when the handler goes on to the create call.           *)
Outcome(next, res, cs, ls) == [next |-> next, res |-> res, calls |-> cs, logs |-> ls]

(* Variant: the artifact is looked up before the parameters are validated *)
lambda_precheck_artifact_first(name, meta) ==
    LET file == Call("is_file_exists",
                     IF Has(meta, S3_PATH_NAME) THEN meta[S3_PATH_NAME] ELSE "None",
                     None)
    IN  IF ~validate_params(meta, req_params)
        THEN Outcome("done", Error("ValidationError"), <<file>>, <<>>)
        ELSE Outcome("done", Error("DependencyError"), <<file>>, <<>>)

(* Variant: the existence check does not short-circuit *)
lambda_precheck_no_short_circuit(name, meta) ==
    IF ~validate_params(meta, req_params)
    THEN Outcome("done", Error("ValidationError"), <<>>, <<>>)
    ELSE Outcome("create", Pending,
                 <<Call("is_file_exists", meta[S3_PATH_NAME], None),
                   Call("get_function", name, None),
                   Call("check_if_role_exists", meta["iam_role_name"], None)>>,
                 <<>>)

(* Variant: the role lookup's answer is not tested *)
lambda_precheck_no_role_check(name, meta) ==
    IF ~validate_params(meta, req_params)
    THEN Outcome("done", Error("ValidationError"), <<>>, <<>>)
    ELSE
    LET key == meta[S3_PATH_NAME]
        file == Call("is_file_exists", key, None)
        getf == Call("get_function", name, None)
        role == Call("check_if_role_exists", meta["iam_role_name"], None)
    IN  IF key \notin world.files
        THEN Outcome("done", Error("DependencyError"), <<file>>, <<>>)
        ELSE IF get_function(name) # None
        THEN Outcome("done", describe_lambda(name, meta, get_function(name)),
                     <<file, getf>>, <<"warn">>)
        ELSE Outcome("create", Pending, <<file, getf, role>>, <<>>)

lambda_precheck(name, meta) ==
    IF ~validate_params(meta, req_params)
    THEN Outcome("done", Error("ValidationError"), <<>>, <<>>)
    ELSE IF ~Has(meta, S3_PATH_NAME)
    THEN Outcome("done", Error("KeyError"), <<>>, <<>>)
    ELSE
    LET key == meta[S3_PATH_NAME]
        file == Call("is_file_exists", key, None)
        getf == Call("get_function", name, None)
        role == Call("check_if_role_exists", meta["iam_role_name"], None)
    IN  IF Faulty(file)
        THEN Outcome("done", Error("ClientError"), <<file>>, <<>>)
        ELSE IF key \notin world.files
        THEN Outcome("done", Error("DependencyError"), <<file>>, <<>>)
        ELSE IF Faulty(getf)
        THEN Outcome("done", Error("ClientError"), <<file, getf>>, <<>>)
        ELSE IF get_function(name) # None
        THEN Outcome("done", describe_lambda(name, meta, get_function(name)),
                     <<file, getf>>, <<"warn">>)
        ELSE IF Faulty(role)
        THEN Outcome("done", Error("ClientError"), <<file, getf, role>>, <<>>)
        ELSE IF meta["iam_role_name"] \notin world.roles
        THEN Outcome("done", Error("DependencyError"), <<file, getf, role>>, <<>>)
        ELSE Outcome("create", Pending, <<file, getf, role>>, <<>>)

_create_lambda_from_meta_check(t) ==
    /\ op = "create_lambda"
    /\ pc[t] = "check"
    /\ LET o == lambda_precheck(args[t].name, args[t].meta)
       IN  /\ Step(t, o.next, o.calls, o.logs)
           /\ result' = [result EXCEPT ![t] = o.res]
    /\ UNCHANGED <<op, args, run, idx, unresolved_exec, invoked, prev, lambdas,
                   streams, headroom, esm, table_stream, log_groups, world, fault, start, responses>>

(* Lines 74-98: the dead-letter target and the create call.  meta.get     *)
(* of a missing field and the empty text are falsy alike.                  *)
dl_target_arn(meta) ==
    LET got == IF Has(meta, "dl_resource_type") THEN meta["dl_resource_type"] ELSE <<>>
        dl_type == IF got # <<>> THEN Lower(got) ELSE got
        dl_name == IF Has(meta, "dl_resource_name") THEN meta["dl_resource_name"] ELSE <<>>
    IN  IF dl_type # <<>> /\ dl_name # <<>>
        THEN <<"arn", "aws", dl_type, REGION, ACCOUNT_ID, dl_name>>
        ELSE None

create_lambda_call(name, meta) ==
    Call("create_lambda", name,
         [func_name |-> meta["func_name"],
          role |-> RoleArn(meta["iam_role_name"]),
          runtime |-> Lower(meta["runtime"]),
          memory |-> meta["memory"],
          timeout |-> meta["timeout"],
          s3_bucket |-> DEPLOY_TARGET_BUCKET,
          s3_key |-> meta[S3_PATH_NAME],
          dl_target_arn |-> dl_target_arn(meta)])

_create_lambda_from_meta_create(t) ==
    /\ op = "create_lambda"
    /\ pc[t] = "create"
    /\ LET name == args[t].name
           c == create_lambda_call(name, args[t].meta)
       IN  IF Faulty(c)
           THEN /\ Finish(t, Error("ClientError"), <<c>>, <<>>)
                /\ UNCHANGED lambdas
           ELSE /\ Step(t, "refetch", <<c>>, <<>>)
                /\ lambdas' = [lambdas EXCEPT ![name] =
                                 [exists |-> TRUE, runtime |-> c.arg.runtime,
                                  memory |-> c.arg.memory]]
                /\ UNCHANGED result
    /\ UNCHANGED <<op, args, run, idx, unresolved_exec, invoked, prev,
                   streams, headroom, esm, table_stream, log_groups, world, fault, start, responses>>

(* Lines 100-115: re-fetch after the fixed delay, then the headroom read *)
con_exec(meta) ==
    IF Has(meta, "concurrent_executions") THEN meta["concurrent_executions"] ELSE 0

(* Line 107: con_exec <= unresolved_exec *)
fits(c, unresolved) == c <= unresolved

_create_lambda_from_meta_refetch(t) ==
    /\ op = "create_lambda"
    /\ pc[t] = "refetch"
    /\ LET name == args[t].name
           getf == Call("get_function", name, None)
           unres == Call("get_unresolved_concurrent_executions", "account", None)
       IN  IF Faulty(getf)
           THEN /\ Finish(t, Error("ClientError"), <<Sleep(10), getf>>, <<>>)
                /\ UNCHANGED unresolved_exec
           ELSE IF get_function(name) = None
           THEN /\ Finish(t, Error("TypeError"), <<Sleep(10), getf>>, <<>>)
                /\ UNCHANGED unresolved_exec
           ELSE IF con_exec(args[t].meta) = 0
           THEN /\ Step(t, "triggers", <<Sleep(10), getf>>, <<>>)
                /\ UNCHANGED <<result, unresolved_exec>>
           ELSE IF Faulty(unres)
           THEN /\ Finish(t, Error("ClientError"), <<Sleep(10), getf, unres>>, <<"debug">>)
                /\ UNCHANGED unresolved_exec
           ELSE /\ unresolved_exec' = [unresolved_exec EXCEPT ![t] = headroom]
                /\ IF fits(con_exec(args[t].meta), headroom)
                   THEN Step(t, "put", <<Sleep(10), getf, unres>>, <<"debug">>)
                   ELSE Step(t, "triggers", <<Sleep(10), getf, unres>>, <<"debug", "warn">>)
                /\ UNCHANGED result
    /\ responses' = [responses EXCEPT ![t] =
                        IF Faulty(Call("get_function", args[t].name, None))
                        THEN @ ELSE get_function(args[t].name)]
    /\ UNCHANGED <<op, args, run, idx, invoked, prev, lambdas,
                   streams, headroom, esm, table_stream, log_groups, world, fault, start>>

(* Lines 108-111: the concurrency override.  The provider refuses an      *)
(* override that no longer fits into the unreserved headroom.             *)
_create_lambda_from_meta_put(t) ==
    /\ op = "create_lambda"
    /\ pc[t] = "put"
    /\ LET c == Call("put_function_concurrency", args[t].name,
                     [concurrent_executions |-> con_exec(args[t].meta)])
       IN  IF Faulty(c)
           THEN /\ Finish(t, Error("ClientError"), <<c>>, <<>>)
                /\ UNCHANGED headroom
           ELSE /\ Step(t, "triggers", <<c>>, <<"debug">>)
                /\ headroom' = headroom - con_exec(args[t].meta)
                /\ UNCHANGED result
    /\ UNCHANGED <<op, args, run, idx, unresolved_exec, invoked, prev, lambdas,
                   streams, esm, table_stream, log_groups, world, fault, start, responses>>

(* Lines 117-121: the trigger loop, one spec per step *)
(* Variant: the trigger specs are taken last first *)
event_sources_reversed(meta) ==
    IF Has(meta, "event_sources")
    THEN [k \in 1..Len(meta["event_sources"]) |->
            meta["event_sources"][Len(meta["event_sources"]) + 1 - k]]
    ELSE <<>>

event_sources(meta) ==
    IF Has(meta, "event_sources") THEN meta["event_sources"] ELSE <<>>

MappingsOf(cs) ==
    {[fn |-> cs[i].target, source |-> cs[i].arg.source] :
        i \in {j \in 1..Len(cs) : cs[j].op = "add_event_source"}}

TablesOf(cs) ==
    {cs[i].target : i \in {j \in 1..Len(cs) : cs[j].op = "enable_table_stream"}}

(* Lines 119-121: one turn of the loop *)
bind_trigger(name, meta, trigger_meta) ==
    IF ~Has(trigger_meta, "resource_type")
    THEN [binder |-> "none"] @@ Binding(<<>>, "KeyError", <<>>)
    ELSE LET f == CREATE_TRIGGER(trigger_meta["resource_type"])
         IN  IF f = "KeyError"
             THEN [binder |-> "none"] @@ Binding(<<>>, "KeyError", <<>>)
             ELSE [binder |-> f] @@
                  func(f, name, LambdaArn(name), meta["iam_role_name"], trigger_meta)

_create_lambda_from_meta_trigger(t) ==
    /\ op = "create_lambda"
    /\ pc[t] = "triggers"
    /\ idx[t] <= Len(event_sources(args[t].meta))
    /\ LET trigger_meta == event_sources(args[t].meta)[idx[t]]
           b == bind_trigger(args[t].name, args[t].meta, trigger_meta)
       IN  /\ invoked' = [invoked EXCEPT ![t] =
                            IF b.binder # "none"
                            THEN Append(@, [i |-> idx[t], binder |-> b.binder,
                                            trigger_meta |-> trigger_meta])
                            ELSE @]
           /\ esm' = esm \cup MappingsOf(Served(b.script))
           /\ table_stream' = table_stream \cup TablesOf(Served(b.script))
           /\ IF Raised(b.script)
              THEN Finish(t, Error("ClientError"), Issued(b.script), <<>>)
              ELSE IF b.error # "none"
              THEN Finish(t, Error(b.error), b.script, b.logs)
              ELSE /\ Step(t, b.then, b.script, b.logs)
                   /\ UNCHANGED result
           /\ idx' = [idx EXCEPT ![t] = @ + 1]
    /\ UNCHANGED <<op, args, run, unresolved_exec, prev, lambdas,
                   streams, headroom, log_groups, world, fault, start, responses>>

(* Lines 234-267 of the stream binder: the inline policy is attached, the  *)
(* binder logs twice and waits 10 seconds.  trigger_meta is the spec the   *)
(* loop is at.                                                             *)
_create_kinesis_stream_trigger_policy(t) ==
    /\ op = "create_lambda"
    /\ pc[t] = "kinesis_policy"
    /\ LET trigger_meta == event_sources(args[t].meta)[idx[t] - 1]
           script == kinesis_policy(args[t].name, LambdaArn(args[t].name),
                                    args[t].meta["iam_role_name"],
                                    trigger_meta["target_stream"])
       IN  IF Raised(script)
           THEN Finish(t, Error("ClientError"), Issued(script), <<>>)
           ELSE /\ Step(t, "kinesis_subscribe", script, <<"debug", "debug">>)
                /\ UNCHANGED result
    /\ UNCHANGED <<op, args, run, idx, unresolved_exec, invoked, prev, lambdas,
                   streams, headroom, esm, table_stream, log_groups, world, fault, start, responses>>

(* Lines 269-271 of the stream binder: the subscription, with the stream   *)
(* ARN the binder read at its start, then the loop goes on.                *)
_create_kinesis_stream_trigger_subscribe(t) ==
    /\ op = "create_lambda"
    /\ pc[t] = "kinesis_subscribe"
    /\ LET trigger_meta == event_sources(args[t].meta)[idx[t] - 1]
           script == _add_kinesis_event_source(
                         args[t].name, StreamArn(trigger_meta["target_stream"]),
                         trigger_meta)
       IN  /\ esm' = esm \cup MappingsOf(Served(script))
           /\ IF Raised(script)
              THEN Finish(t, Error("ClientError"), Issued(script), <<>>)
              ELSE /\ Step(t, "triggers", script, <<"info">>)
                   /\ UNCHANGED result
    /\ UNCHANGED <<op, args, run, idx, unresolved_exec, invoked, prev, lambdas,
                   streams, headroom, table_stream, log_groups, world, fault, start, responses>>

(* Lines 122-123: the description is built from the response of line 101 *)
_create_lambda_from_meta_return(t) ==
    /\ op = "create_lambda"
    /\ pc[t] = "triggers"
    /\ idx[t] > Len(event_sources(args[t].meta))
    /\ Finish(t, describe_lambda(args[t].name, args[t].meta, responses[t]),
              <<>>, <<"info">>)
    /\ UNCHANGED <<op, args, run, idx, unresolved_exec, invoked, prev, lambdas,
                   streams, headroom, esm, table_stream, log_groups, world, fault, start, responses>>

-----------------------------------------------------------------------------
(* _create_kinesis_stream_from_meta *)

(* Lines 58-61 and 66-68: the mapping keyed by response['StreamARN'] *)
describe_stream(name, meta, response) ==
    IF Has(response, "StreamARN")
    THEN Returned(response["StreamARN"], build_description_obj(response, name, meta))
    ELSE Error("KeyError")

(* Lines 50-61: the existence check *)
stream_check(name, meta) ==
    LET gets == Call("get_stream", name, None)
        response == get_stream(name)
    IN  IF Faulty(gets)
        THEN Outcome("done", Error("ClientError"), <<gets>>, <<>>)
        ELSE IF response = None
        THEN Outcome("create", Pending, <<gets>>, <<>>)
        ELSE IF response.StreamDescription.StreamStatus = "DELETING"
        THEN Outcome("create", Pending, <<gets, Sleep(120)>>, <<"debug">>)
        ELSE Outcome("done", describe_stream(name, meta, response),
                     <<gets>>, <<"warn">>)

_create_kinesis_stream_from_meta_check(t) ==
    /\ op = "create_kinesis_stream"
    /\ pc[t] = "check"
    /\ LET o == stream_check(args[t].name, args[t].meta)
       IN  /\ Step(t, o.next, o.calls, o.logs)
           /\ result' = [result EXCEPT ![t] = o.res]
    /\ UNCHANGED <<op, args, run, idx, unresolved_exec, invoked, prev, lambdas,
                   streams, headroom, esm, table_stream, log_groups, world, fault, start, responses>>

(* Lines 62-68: create, re-fetch, return *)
_create_kinesis_stream_from_meta_create(t) ==
    /\ op = "create_kinesis_stream"
    /\ pc[t] = "create"
    /\ LET name == args[t].name
           meta == args[t].meta
       IN  IF ~Has(meta, "shard_count")
           THEN /\ Finish(t, Error("KeyError"), <<>>, <<>>)
                /\ UNCHANGED streams
           ELSE
           LET c == Call("create_stream", name, [shard_count |-> meta["shard_count"]])
               gets == Call("get_stream", name, None)
           IN  IF Faulty(c)
               THEN /\ Finish(t, Error("ClientError"), <<c>>, <<>>)
                    /\ UNCHANGED streams
               ELSE /\ streams' = [streams EXCEPT ![name] = "CREATING"]
                    /\ IF Faulty(gets)
                       THEN Finish(t, Error("ClientError"), <<c, gets>>, <<"info">>)
                       ELSE Finish(t,
                              describe_stream(name, meta,
                                [StreamDescription |->
                                   [StreamARN |-> StreamArn(name),
                                    StreamName |-> name,
                                    StreamStatus |-> "CREATING"]]),
                              <<c, gets>>, <<"info">>)
    /\ UNCHANGED <<op, args, run, idx, unresolved_exec, invoked, prev, lambdas,
                   headroom, esm, table_stream, log_groups, world, fault, start, responses>>

(* The provider completes an asynchronous stream transition. *)
ProviderProgress(s) ==
    /\ streams[s] \in {"CREATING", "DELETING"}
    /\ streams' = [streams EXCEPT ![s] =
                     IF @ = "CREATING" THEN "ACTIVE" ELSE "ABSENT"]
    /\ UNCHANGED <<op, args, run, pc, idx, unresolved_exec, result, calls, logs,
                   invoked, prev, lambdas, headroom, esm, table_stream,
                   log_groups, world, fault, start, responses>>

-----------------------------------------------------------------------------
(* Removers *)

Last(seq) == seq[Len(seq)]

(* The elements of seq that are in keep, in the order of seq *)
SelectSeq2(seq, keep) ==
    LET Kept(e) == e \in keep
    IN  SelectSeq(seq, Kept)

(* A log group name is held as the list of its pieces, "/" being a piece   *)
(* of its own: /aws/lambda/fn1 is <<"/", "aws", "/", "lambda", "/", "fn1">> *)
(* and /aws/lambda/myfn1 ends in the pieces "my", "fn1".                    *)
Slashes(each) == {i \in 1..Len(each) : each[i] = "/"}

(* each.split('/'): the pieces between one "/" and the next *)
Split(each) ==
    LET cuts == Slashes(each)
        n == Cardinality(cuts)
        Cut(k) == IF k = 0 THEN 0
                  ELSE IF k = n + 1 THEN Len(each) + 1
                  ELSE CHOOSE i \in cuts : Cardinality({j \in cuts : j < i}) = k - 1
    IN  [k \in 1..(n + 1) |-> SubSeq(each, Cut(k - 1) + 1, Cut(k) - 1)]

(* Variant: every group whose name ends in the function's name is taken *)
MatchingGroups_suffix(lambda_name) ==
    {g \in {log_groups[i] : i \in 1..Len(log_groups)} :
        g # <<>> /\ Last(g) = lambda_name}

(* Line 304: lambda_name == each.split('/')[-1] *)
MatchingGroups(lambda_name) ==
    {g \in {log_groups[i] : i \in 1..Len(log_groups)} :
        Last(Split(g)) = <<lambda_name>>}

DeleteCalls(groups) ==
    [i \in 1..Len(groups) |->
        Call("delete_log_group_name", "logs", [name |-> groups[i]])]

(* Variant: the trigger bindings are removed before the function *)
remove_lambda_script_trigger_first(lambda_name) ==
    <<Call("remove_trigger", lambda_name, None),
      Call("delete_lambda", lambda_name, None),
      Call("get_log_group_names", "logs", None)>>
    \o DeleteCalls(SelectSeq2(log_groups, MatchingGroups(lambda_name)))

(* Lines 300-305 *)
remove_lambda_script(lambda_name) ==
    <<Call("delete_lambda", lambda_name, None),
      Call("remove_trigger", lambda_name, None),
      Call("get_log_group_names", "logs", None)>>
    \o DeleteCalls(SelectSeq2(log_groups, MatchingGroups(lambda_name)))

(* Variant: a not-found answer is raised like any other provider error *)
remove_outcome_raises(script) ==
    IF ~Raised(script) THEN Outcome("done", ReturnedNone, script, <<"info">>)
    ELSE Outcome("done", Error("ClientError"), Issued(script), <<>>)

(* Lines 307-311 and kinesis_resource.py lines 41-45 *)
remove_outcome(script) ==
    IF ~Raised(script) THEN Outcome("done", ReturnedNone, script, <<"info">>)
    ELSE IF Answer(Last(Issued(script))) = "ResourceNotFoundException"
    THEN Outcome("done", ReturnedNone, Issued(script), <<"warn">>)
    ELSE Outcome("done", Error("ClientError"), Issued(script), <<>>)

DeletedGroups(cs) ==
    {cs[i].arg.name : i \in {j \in 1..Len(cs) : cs[j].op = "delete_log_group_name"}}

_remove_lambda(t) ==
    /\ op = "remove_lambdas"
    /\ pc[t] = "remove"
    /\ LET lambda_name == args[t].config["resource_name"]
           script == remove_lambda_script(lambda_name)
           o == remove_outcome(script)
           served == Served(script)
       IN  /\ Finish(t, o.res, o.calls, o.logs)
           /\ lambdas' = IF "delete_lambda" \in Ops(served)
                         THEN [lambdas EXCEPT ![lambda_name] = NoFunction]
                         ELSE lambdas
           /\ esm' = IF "remove_trigger" \in Ops(served)
                     THEN {m \in esm : m.fn # lambda_name} ELSE esm
           /\ log_groups' = SelectSeq2(log_groups,
                               {log_groups[i] : i \in 1..Len(log_groups)}
                               \ DeletedGroups(served))
    /\ UNCHANGED <<op, args, run, idx, unresolved_exec, invoked, prev,
                   streams, headroom, table_stream, world, fault, start, responses>>

_remove_kinesis_stream(t) ==
    /\ op = "remove_kinesis_streams"
    /\ pc[t] = "remove"
    /\ LET stream_name == args[t].config["resource_name"]
           script == <<Call("remove_stream", stream_name, None)>>
           o == remove_outcome(script)
       IN  /\ Finish(t, o.res, o.calls, o.logs)
           /\ streams' = IF Raised(script) THEN streams
                         ELSE [streams EXCEPT ![stream_name] = "DELETING"]
    /\ UNCHANGED <<op, args, run, idx, unresolved_exec, invoked, prev, lambdas,
                   headroom, esm, table_stream, log_groups, world, fault, start, responses>>

-----------------------------------------------------------------------------
(* create_pool: the bounded executor behind the four entry points *)

(* Variant: function creation is given the cap of the other fan-outs *)
Workers_same_cap ==
    CASE op = "create_lambda" -> CreateStreamWorkers
      [] op = "create_kinesis_stream" -> CreateStreamWorkers
      [] op = "remove_lambdas" -> RemoveLambdaWorkers
      [] op = "remove_kinesis_streams" -> RemoveStreamWorkers

Workers ==
    CASE op = "create_lambda" -> CreateLambdaWorkers
      [] op = "create_kinesis_stream" -> CreateStreamWorkers
      [] op = "remove_lambdas" -> RemoveLambdaWorkers
      [] op = "remove_kinesis_streams" -> RemoveStreamWorkers

InFlight == {t \in Tasks : pc[t] \notin {"queued", "done"}}

Entry == IF op \in {"create_lambda", "create_kinesis_stream"} THEN "check" ELSE "remove"

(* Variant: the executor takes no further descriptor once a task failed *)
create_pool_start_fail_fast(t) ==
    /\ pc[t] = "queued"
    /\ Cardinality(InFlight) < Workers
    /\ \A u \in Tasks : result[u].status # "error"
    /\ pc' = [pc EXCEPT ![t] = Entry]
    /\ UNCHANGED <<op, args, run, idx, unresolved_exec, result, calls, logs,
                   invoked, prev, lambdas, streams, headroom, esm, table_stream,
                   log_groups, world, fault, start, responses>>

(* A free worker takes the next descriptor from the queue. *)
create_pool_start(t) ==
    /\ pc[t] = "queued"
    /\ Cardinality(InFlight) < Workers
    /\ pc' = [pc EXCEPT ![t] = Entry]
    /\ UNCHANGED <<op, args, run, idx, unresolved_exec, result, calls, logs,
                   invoked, prev, lambdas, streams, headroom, esm, table_stream,
                   log_groups, world, fault, start, responses>>

AllDone == \A t \in Tasks : pc[t] = "done"

(* The merged mapping create_pool returns once every task has completed. *)
DeploymentRecord ==
    {[key |-> result[t].key, value |-> result[t].value] :
        t \in {u \in Tasks : result[u].status = "ok" /\ result[u].key # NoKey}}

Fresh(n) ==
    /\ pc = [t \in 1..n |-> "queued"]
    /\ idx = [t \in 1..n |-> 1]
    /\ unresolved_exec = [t \in 1..n |-> 0]
    /\ result = [t \in 1..n |-> Pending]
    /\ calls = [t \in 1..n |-> <<>>]
    /\ logs = [t \in 1..n |-> <<>>]
    /\ invoked = [t \in 1..n |-> <<>>]
    /\ responses = [t \in 1..n |-> None]
    /\ start = [lambdas |-> lambdas, streams |-> streams, log_groups |-> log_groups]

(* The same entry point is called again with the same argument list. *)
Rerun ==
    /\ AllDone
    /\ run < MaxRuns
    /\ run' = run + 1
    /\ prev' = [t \in Tasks |-> [result |-> result[t], calls |-> calls[t],
                                 logs |-> logs[t]]]
    /\ pc' = [t \in Tasks |-> "queued"]
    /\ idx' = [t \in Tasks |-> 1]
    /\ unresolved_exec' = [t \in Tasks |-> 0]
    /\ result' = [t \in Tasks |-> Pending]
    /\ calls' = [t \in Tasks |-> <<>>]
    /\ logs' = [t \in Tasks |-> <<>>]
    /\ invoked' = [t \in Tasks |-> <<>>]
    /\ responses' = [t \in Tasks |-> None]
    /\ start' = [lambdas |-> lambdas, streams |-> streams, log_groups |-> log_groups]
    /\ UNCHANGED <<op, args, lambdas, streams, headroom, esm, table_stream,
                   log_groups, world, fault>>

-----------------------------------------------------------------------------
(* Descriptors and provider states the entry points are run on *)

BaseMeta ==
    [iam_role_name |-> "role1", runtime |-> <<"L", "a", "n", "g", "1">>, memory |-> 128,
     timeout |-> 30, func_name |-> "handler", s3_path |-> "pkg.zip"]

SqsTrigger ==
    [resource_type |-> "sqs_trigger", target_queue |-> "q1", batch_size |-> 10]

KinesisTrigger ==
    [resource_type |-> "kinesis_trigger", target_stream |-> "s1",
     batch_size |-> 10, starting_position |-> "TRIM_HORIZON"]

TriggerSpecs ==
    {SqsTrigger,
     Without(SqsTrigger, "batch_size"),
     KinesisTrigger,
     [resource_type |-> "dynamodb_trigger", target_table |-> "t1", batch_size |-> 10],
     [resource_type |-> "cloudwatch_rule_trigger", target_rule |-> "r1"],
     [resource_type |-> "s3_trigger", target_bucket |-> "b1", s3_events |-> "ObjectCreated"],
     [resource_type |-> "sns_topic_trigger", target_topic |-> "topic1"],
     [resource_type |-> "queue_trigger", target_queue |-> "q1", batch_size |-> 10]}

TriggerSeqs == UNION {[1..n -> TriggerSpecs] : n \in 0..MaxTriggers}

LambdaMetas ==
    {BaseMeta @@ [event_sources |-> es] : es \in TriggerSeqs}
    \cup {BaseMeta}
    \cup {Without(BaseMeta, f) : f \in req_params}
    \cup {BaseMeta @@ [concurrent_executions |-> c] : c \in 0..MaxHeadroom}
    \cup {BaseMeta @@ [concurrent_executions |-> 1, event_sources |-> <<SqsTrigger>>]}
    \cup {BaseMeta @@ [dl_resource_type |-> ty, dl_resource_name |-> nm] :
             ty \in {<<"S", "Q", "S">>, <<"s", "n", "s">>, <<>>},
             nm \in {<<"d", "l", "q">>, <<>>}}
    \cup {BaseMeta @@ [dl_resource_type |-> <<"S", "Q", "S">>],
          BaseMeta @@ [dl_resource_name |-> <<"d", "l", "q">>],
          [BaseMeta EXCEPT !["runtime"] = <<"P", "y", "t", "h", "o", "n", "3", ".", "7">>],
          [BaseMeta EXCEPT !["runtime"] = <<"É", "C", "O", "L", "E">>],
          BaseMeta @@ [dl_resource_type |-> <<"Ä", "r", "g", "e", "r">>,
                       dl_resource_name |-> <<"d", "l", "q">>]}

Tags(meta) ==
    {event_sources(meta)[i]["resource_type"] : i \in 1..Len(event_sources(meta))}

Existing == [exists |-> TRUE, runtime |-> <<"l", "a", "n", "g", "0">>, memory |-> 64]

Worlds(meta) ==
    [files : {{}, {"pkg.zip"}},
     roles : {{}, {"role1"}},
     queues : IF "sqs_trigger" \in Tags(meta) THEN {{}, {"q1"}} ELSE {{"q1"}},
     buckets : IF "s3_trigger" \in Tags(meta) THEN {{}, {"b1"}} ELSE {{"b1"}}]

GoodWorld == [files |-> {"pkg.zip"}, roles |-> {"role1"}, queues |-> {"q1"},
              buckets |-> {"b1"}]

Denied(o, target) == [op |-> o, target |-> target, code |-> "AccessDeniedException"]
NotFound(o, target) == [op |-> o, target |-> target, code |-> "ResourceNotFoundException"]

LambdaGroup(n) == <<"/", "aws", "/", "lambda", "/", n>>

LogGroups ==
    {<<>>,
     << LambdaGroup("fn1") >>,
     << LambdaGroup("fn2"), LambdaGroup("fn1"), <<"/", "custom", "/", "fn1">>,
        <<"/", "aws", "/", "lambda", "/", "my", "fn1">>, <<"fn1">> >>}

NoStreams == [s \in StreamNames |-> "ABSENT"]
NoLambdas == [n \in FnNames |-> NoFunction]

InitLambda ==
    /\ op = "create_lambda"
    /\ \E meta \in LambdaMetas :
         /\ args = <<[name |-> "fn1", meta |-> meta]>>
         /\ world \in Worlds(meta)
         /\ streams \in {[NoStreams EXCEPT !["s1"] = st] :
                           st \in IF "kinesis_trigger" \in Tags(meta)
                                  THEN {"ACTIVE", "CREATING", "DELETING", "ABSENT"}
                                  ELSE {"ABSENT"}}
         /\ table_stream \in IF "dynamodb_trigger" \in Tags(meta)
                             THEN {{}, {"t1"}} ELSE {{}}
         /\ headroom \in IF con_exec(meta) = 0 THEN {MaxHeadroom}
                         ELSE 0..MaxHeadroom
    /\ lambdas \in {NoLambdas, [NoLambdas EXCEPT !["fn1"] = Existing]}
    /\ fault \in {NoFault, Denied("create_lambda", "fn1"),
                  Denied("add_event_source", "fn1"),
                  Denied("attach_inline_policy", "role1")}
    /\ esm = {}
    /\ log_groups = <<>>

InitStream ==
    /\ op = "create_kinesis_stream"
    /\ args \in {<<[name |-> "s1", meta |-> m]>> :
                   m \in {[shard_count |-> 1], [shard_count |-> 2]}}
    /\ streams \in {[NoStreams EXCEPT !["s1"] = st] :
                      st \in {"ABSENT", "CREATING", "ACTIVE", "DELETING"}}
    /\ fault \in {NoFault, Denied("create_stream", "s1"), Denied("get_stream", "s1")}
    /\ world = GoodWorld
    /\ lambdas = NoLambdas
    /\ table_stream = {}
    /\ headroom = MaxHeadroom
    /\ esm = {}
    /\ log_groups = <<>>

InitRemoveLambda ==
    /\ op = "remove_lambdas"
    /\ args = <<[arn |-> LambdaArn("fn1"), config |-> [resource_name |-> "fn1"]]>>
    /\ lambdas \in {NoLambdas, [NoLambdas EXCEPT !["fn1"] = Existing]}
    /\ log_groups \in LogGroups
    /\ esm \in {{}, {[fn |-> "fn1", source |-> StreamArn("s1")]}}
    /\ fault \in {NoFault, Denied("delete_lambda", "fn1"),
                  Denied("remove_trigger", "fn1"),
                  NotFound("remove_trigger", "fn1"),
                  NotFound("delete_log_group_name", "logs")}
    /\ world = GoodWorld
    /\ streams = NoStreams
    /\ table_stream = {}
    /\ headroom = MaxHeadroom

InitRemoveStream ==
    /\ op = "remove_kinesis_streams"
    /\ args = <<[arn |-> StreamArn("s1"), config |-> [resource_name |-> "s1"]]>>
    /\ streams \in {[NoStreams EXCEPT !["s1"] = st] :
                      st \in {"ABSENT", "CREATING", "ACTIVE", "DELETING"}}
    /\ fault \in {NoFault, Denied("remove_stream", "s1"),
                  [op |-> "remove_stream", target |-> "s1",
                   code |-> "ResourceInUseException"]}
    /\ world = GoodWorld
    /\ lambdas = NoLambdas
    /\ table_stream = {}
    /\ headroom = MaxHeadroom
    /\ esm = {}
    /\ log_groups = <<>>

Init ==
    /\ run = 1
    /\ prev = <<>>
    /\ \/ InitLambda
       \/ InitStream
       \/ InitRemoveLambda
       \/ InitRemoveStream
    /\ Fresh(1)

Next ==
    \/ \E t \in Tasks : create_pool_start(t)
    \/ \E t \in Tasks : _create_lambda_from_meta_check(t)
    \/ \E t \in Tasks : _create_lambda_from_meta_create(t)
    \/ \E t \in Tasks : _create_lambda_from_meta_refetch(t)
    \/ \E t \in Tasks : _create_lambda_from_meta_put(t)
    \/ \E t \in Tasks : _create_lambda_from_meta_trigger(t)
    \/ \E t \in Tasks : _create_kinesis_stream_trigger_policy(t)
    \/ \E t \in Tasks : _create_kinesis_stream_trigger_subscribe(t)
    \/ \E t \in Tasks : _create_lambda_from_meta_return(t)
    \/ \E t \in Tasks : _create_kinesis_stream_from_meta_check(t)
    \/ \E t \in Tasks : _create_kinesis_stream_from_meta_create(t)
    \/ \E t \in Tasks : _remove_lambda(t)
    \/ \E t \in Tasks : _remove_kinesis_stream(t)
    \/ \E s \in StreamNames : ProviderProgress(s)
    \/ Rerun

Spec == Init /\ [][Next]_vars

-----------------------------------------------------------------------------
(* A fan-out of more descriptors than the pool has workers *)

PoolMeta(t, mode) ==
    LET m == IF t <= 2 THEN BaseMeta @@ [concurrent_executions |-> 1]
             ELSE IF t = 3
             THEN BaseMeta @@ [event_sources |-> <<SqsTrigger, KinesisTrigger>>]
             ELSE BaseMeta
    IN  IF t # 1 THEN m
        ELSE CASE mode = "validation" -> Without(m, "runtime")
               [] mode = "dependency" -> [m EXCEPT !["iam_role_name"] = "role2"]
               [] OTHER -> m

PoolInitLambda ==
    /\ op = "create_lambda"
    /\ \E mode \in {"none", "validation", "dependency", "provider"} :
         /\ args = [t \in 1..(CreateLambdaWorkers + Extra) |->
                      [name |-> FnName[t], meta |-> PoolMeta(t, mode)]]
         /\ fault = IF mode = "provider"
                    THEN Denied("create_lambda", "fn1") ELSE NoFault
    /\ headroom = 1
    /\ lambdas = NoLambdas
    /\ streams = [NoStreams EXCEPT !["s1"] = "ACTIVE"]
    /\ log_groups = <<>>

PoolInitStream ==
    /\ op = "create_kinesis_stream"
    /\ args = [t \in 1..(CreateStreamWorkers + Extra) |->
                 [name |-> StreamName[t], meta |-> [shard_count |-> 1]]]
    /\ fault \in {NoFault, Denied("create_stream", "s1")}
    /\ streams = [s \in StreamNames |-> IF s \in {"s1", "s2"} THEN "ABSENT" ELSE "ACTIVE"]
    /\ headroom = MaxHeadroom
    /\ lambdas = NoLambdas
    /\ log_groups = <<>>

PoolInitRemoveLambda ==
    /\ op = "remove_lambdas"
    /\ args = [t \in 1..(RemoveLambdaWorkers + Extra) |->
                 [arn |-> LambdaArn(FnName[t]),
                  config |-> [resource_name |-> FnName[t]]]]
    /\ fault \in {NoFault, Denied("delete_lambda", "fn1")}
    /\ lambdas = [[n \in FnNames |-> Existing] EXCEPT !["fn2"] = NoFunction]
    /\ log_groups = << LambdaGroup("fn1") >>
    /\ streams = NoStreams
    /\ headroom = MaxHeadroom

PoolInitRemoveStream ==
    /\ op = "remove_kinesis_streams"
    /\ args = [t \in 1..(RemoveStreamWorkers + Extra) |->
                 [arn |-> StreamArn(StreamName[t]),
                  config |-> [resource_name |-> StreamName[t]]]]
    /\ fault \in {NoFault, Denied("remove_stream", "s1")}
    /\ streams = [NoStreams EXCEPT !["s1"] = "ACTIVE", !["s2"] = "ACTIVE"]
    /\ lambdas = NoLambdas
    /\ log_groups = <<>>
    /\ headroom = MaxHeadroom

PoolInit ==
    /\ run = 1
    /\ prev = <<>>
    /\ world = GoodWorld
    /\ esm = {}
    /\ table_stream = {}
    /\ \/ PoolInitLambda
       \/ PoolInitStream
       \/ PoolInitRemoveLambda
       \/ PoolInitRemoveStream
    /\ Fresh(Len(args))

PoolNext ==
    \/ \E t \in Tasks : create_pool_start(t)
    \/ \E t \in Tasks : _create_lambda_from_meta_check(t)
    \/ \E t \in Tasks : _create_lambda_from_meta_create(t)
    \/ \E t \in Tasks : _create_lambda_from_meta_refetch(t)
    \/ \E t \in Tasks : _create_lambda_from_meta_put(t)
    \/ \E t \in Tasks : _create_lambda_from_meta_trigger(t)
    \/ \E t \in Tasks : _create_kinesis_stream_trigger_policy(t)
    \/ \E t \in Tasks : _create_kinesis_stream_trigger_subscribe(t)
    \/ \E t \in Tasks : _create_lambda_from_meta_return(t)
    \/ \E t \in Tasks : _create_kinesis_stream_from_meta_check(t)
    \/ \E t \in Tasks : _create_kinesis_stream_from_meta_create(t)
    \/ \E t \in Tasks : _remove_lambda(t)
    \/ \E t \in Tasks : _remove_kinesis_stream(t)
    \/ \E s \in StreamNames : ProviderProgress(s)
    \/ Rerun

PoolSpec == PoolInit /\ [][PoolNext]_vars

-----------------------------------------------------------------------------
(* Properties *)

Name(t) == IF op \in {"create_lambda", "create_kinesis_stream"}
           THEN args[t].name ELSE args[t].config["resource_name"]

Mutations(t) == Ops(calls[t]) \cap MutatingOps

CallsOf(t, o) == SelectSeq(calls[t], LAMBDA c : c.op = o)

Registered(trigger_meta) ==
    Has(trigger_meta, "resource_type")
    /\ trigger_meta["resource_type"] \in TriggerTags

(* C1: reconciling the same function or stream descriptor twice in a row  *)
(* returns a mapping with the same key both times, and the second run      *)
(* issues no create call.  A first run that fails with one of the errors  *)
(* of the reconcile contract is left aside.                                *)
C1_Idempotence ==
    \A t \in Tasks :
        ( /\ op \in {"create_lambda", "create_kinesis_stream"}
          /\ run = 2
          /\ pc[t] = "done"
          /\ prev[t].result.err \notin
                {"ValidationError", "DependencyError", "ClientError"} )
        => /\ prev[t].result.status = "ok"
           /\ result[t].status = "ok"
           /\ result[t].key # NoKey
           /\ result[t].key = prev[t].result.key
           /\ Ops(calls[t]) \cap {"create_lambda", "create_stream"} = {}

(* C2: a function descriptor whose meta lacks a required field fails with  *)
(* a validation error and no provider call at all is issued for it.        *)
C2_ValidationFirst ==
    \A t \in Tasks :
        (op = "create_lambda" /\ ~validate_params(args[t].meta, req_params))
        => /\ calls[t] = <<>>
           /\ pc[t] \in {"queued", "check", "done"}
           /\ pc[t] = "done" => result[t] = Error("ValidationError")

C2_Witness ==
    \E t \in Tasks :
        /\ op = "create_lambda"
        /\ ~validate_params(args[t].meta, req_params)
        /\ start.lambdas[args[t].name].exists
        /\ pc[t] = "done"

(* C3: when reconcile raises a validation error, the meta's or a trigger  *)
(* spec's, no provider mutation has been issued for that resource.         *)
C3_ValidationBeforeMutation ==
    \A t \in Tasks :
        (op = "create_lambda" /\ result[t].err = "ValidationError")
        => Mutations(t) = {}

(* C4: a remover whose delete is answered with not-found completes without *)
(* raising and logs one warning; removing again after a successful removal *)
(* completes without raising as well.                                       *)
AnsweredNotFound(t) ==
    /\ Len(calls[t]) = 1
    /\ calls[t][1].op \in {"delete_lambda", "remove_stream"}
    /\ IF fault.op = calls[t][1].op /\ fault.target = calls[t][1].target
       THEN fault.code = "ResourceNotFoundException"
       ELSE IF op = "remove_lambdas"
            THEN ~start.lambdas[Name(t)].exists
            ELSE start.streams[Name(t)] \in {"ABSENT", "DELETING"}

C4_RemovalTolerance ==
    \A t \in Tasks :
        (op \in {"remove_lambdas", "remove_kinesis_streams"} /\ pc[t] = "done")
        => /\ AnsweredNotFound(t) =>
                (result[t] = ReturnedNone /\ logs[t] = <<"warn">>)
           /\ (run > 1 /\ prev[t].result.status = "ok" /\ prev[t].logs = <<"info">>)
                => (result[t] = ReturnedNone /\ logs[t] = <<"warn">>)

C4_Witness ==
    \E t \in Tasks :
        /\ op \in {"remove_lambdas", "remove_kinesis_streams"}
        /\ run = 2
        /\ pc[t] = "done"
        /\ prev[t].logs = <<"info">>
        /\ AnsweredNotFound(t)
        /\ logs[t] = <<"warn">>

(* C5 as stated: in every reconcile that meets no dependency or provider  *)
(* error, whether the function is absent or exists, each trigger spec with *)
(* a registered tag is handed to its binder exactly once, and a spec with  *)
(* another tag makes reconcile fail with a dispatch error.                  *)
C5_DispatchAlways ==
    \A t \in Tasks :
        ( /\ op = "create_lambda"
          /\ pc[t] = "done"
          /\ result[t].err \notin {"DependencyError", "ClientError"} )
        => LET es == event_sources(args[t].meta)
           IN  /\ \A i \in 1..Len(es) :
                     Registered(es[i]) =>
                        Cardinality({k \in 1..Len(invoked[t]) :
                            invoked[t][k] =
                              [i |-> i,
                               binder |-> CREATE_TRIGGER(es[i]["resource_type"]),
                               trigger_meta |-> es[i]]}) = 1
               /\ (\E i \in 1..Len(es) : ~Registered(es[i]))
                     => result[t].err = "KeyError"

(* C5: binders run only in a reconcile that created the function; the     *)
(* specs are dispatched in order, each once, to the binder registered for  *)
(* its tag and with its fields, up to the first spec whose binder raises   *)
(* or whose tag is not registered; such a tag raises KeyError instead of   *)
(* being skipped, and a reconcile that returns after creating the function *)
(* has dispatched every spec.                                               *)
C5_DispatchOnCreate ==
    \A t \in Tasks :
        op = "create_lambda" =>
        LET es == event_sources(args[t].meta)
            n == Len(invoked[t])
        IN  /\ n <= Len(es)
            /\ \A k \in 1..n :
                   /\ Registered(es[k])
                   /\ invoked[t][k] =
                        [i |-> k,
                         binder |-> CREATE_TRIGGER(es[k]["resource_type"]),
                         trigger_meta |-> es[k]]
            /\ n > 0 => (~start.lambdas[args[t].name].exists
                         /\ CallsOf(t, "create_lambda") # <<>>)
            /\ \A j \in 1..Len(es) :
                   (~Registered(es[j]) /\ idx[t] > j)
                   => /\ pc[t] = "done"
                      /\ result[t] = Error("KeyError")
                      /\ n = j - 1
                      /\ idx[t] = j + 1
            /\ (pc[t] = "done" /\ result[t].status = "error")
                   => (n = idx[t] - 1 \/ (n = idx[t] - 2 /\ result[t].err = "KeyError"))
            /\ (pc[t] = "done" /\ result[t].status = "ok"
                /\ ~start.lambdas[args[t].name].exists)
                   => n = Len(es)

C5_Witness ==
    \E t \in Tasks :
        /\ op = "create_lambda"
        /\ pc[t] = "done"
        /\ Len(event_sources(args[t].meta)) = 2
        /\ Registered(event_sources(args[t].meta)[1])
        /\ ~Registered(event_sources(args[t].meta)[2])
        /\ Len(invoked[t]) = 1
        /\ result[t] = Error("KeyError")

(* Position of a task in its handler, counted in steps taken *)
Rank(t) ==
    CASE pc[t] = "queued" -> 0
      [] pc[t] \in {"check", "remove"} -> 1
      [] pc[t] = "create" -> 2
      [] pc[t] = "refetch" -> 3
      [] pc[t] = "put" -> 4
      [] pc[t] = "kinesis_policy" -> 3 * idx[t]
      [] pc[t] = "kinesis_subscribe" -> 3 * idx[t] + 1
      [] pc[t] = "triggers" -> 3 * idx[t] + 2
      [] pc[t] = "done" -> 3 * idx[t] + 3

RECURSIVE Progress(_)
Progress(n) == IF n = 0 THEN 0 ELSE Rank(n) + Progress(n - 1)

Processed == \A t \in Tasks : pc[t] = "done" /\ result[t] # Pending

(* A step of a task of the fan-out *)
TaskStep ==
    \/ \E t \in Tasks : create_pool_start(t)
    \/ \E t \in Tasks : _create_lambda_from_meta_check(t)
    \/ \E t \in Tasks : _create_lambda_from_meta_create(t)
    \/ \E t \in Tasks : _create_lambda_from_meta_refetch(t)
    \/ \E t \in Tasks : _create_lambda_from_meta_put(t)
    \/ \E t \in Tasks : _create_lambda_from_meta_trigger(t)
    \/ \E t \in Tasks : _create_kinesis_stream_trigger_policy(t)
    \/ \E t \in Tasks : _create_kinesis_stream_trigger_subscribe(t)
    \/ \E t \in Tasks : _create_lambda_from_meta_return(t)
    \/ \E t \in Tasks : _create_kinesis_stream_from_meta_check(t)
    \/ \E t \in Tasks : _create_kinesis_stream_from_meta_create(t)
    \/ \E t \in Tasks : _remove_lambda(t)
    \/ \E t \in Tasks : _remove_kinesis_stream(t)

(* C6: at most 3 function reconciles, 5 stream reconciles and 5 removals  *)
(* are in flight at any time, and every submitted descriptor is processed: *)
(* within a run each step of a task moves it forward, and as long as a     *)
(* descriptor is not processed some task has a step to take.               *)
C6_ConcurrencyBound ==
    /\ [](/\ op = "create_lambda" => Cardinality(InFlight) <= CreateLambdaWorkers
          /\ op = "create_kinesis_stream" => Cardinality(InFlight) <= CreateStreamWorkers
          /\ op = "remove_lambdas" => Cardinality(InFlight) <= RemoveLambdaWorkers
          /\ op = "remove_kinesis_streams" => Cardinality(InFlight) <= RemoveStreamWorkers)
    /\ [](Processed \/ ENABLED TaskStep)
    /\ [][run' = run =>
             \/ Progress(Len(args))' > Progress(Len(args))
             \/ UNCHANGED <<pc, idx, result, calls, logs>>]_vars

C6_Witness ==
    /\ op = "create_lambda"
    /\ Cardinality(InFlight) = CreateLambdaWorkers
    /\ \E t \in Tasks : pc[t] = "queued"

(* C7: a task that raises changes nothing of its siblings, and after a    *)
(* failure every sibling that is not finished still has its next step to  *)
(* take, so that it ends with a result or a failure of its own.            *)
C7_SiblingIsolation ==
    /\ [][\A t \in Tasks :
            (result[t].status # "error" /\ result'[t].status = "error")
            => \A u \in Tasks \ {t} :
                  pc'[u] = pc[u] /\ result'[u] = result[u] /\ calls'[u] = calls[u]]_vars
    /\ []((\E t \in Tasks : result[t].status = "error")
            => (Processed \/ ENABLED TaskStep))
    /\ [](\A t \in Tasks : pc[t] = "done" => result[t] # Pending)

C7_Witness ==
    /\ AllDone
    /\ \E t \in Tasks : result[t].err \in {"ValidationError", "DependencyError", "ClientError"}
    /\ \E u \in Tasks : result[u].status = "ok" /\ calls[u] # <<>>
    /\ Len(args) > Workers

(* C8: a create call for a name is issued only in a state where the       *)
(* provider holds no function or stream of that name, neither active nor  *)
(* transitioning.                                                          *)
C8_NoCreateOverHeld ==
    [][\A t \in Tasks :
         \A k \in (Len(calls[t]) + 1)..Len(calls'[t]) :
            /\ calls'[t][k].op = "create_stream"
                  => streams[calls'[t][k].target] = "ABSENT"
            /\ calls'[t][k].op = "create_lambda"
                  => ~lambdas[calls'[t][k].target].exists]_vars

(* C9: with the function absent and its prerequisites present, a          *)
(* descriptor with one queue trigger gets the function created and one     *)
(* record entry keyed by its ARN; one add-event-source call with the       *)
(* configured batch size is issued when the queue exists, none otherwise.  *)
OneQueueTrigger(meta) ==
    /\ Len(event_sources(meta)) = 1
    /\ event_sources(meta)[1]["resource_type"] = "sqs_trigger"
    /\ validate_params(event_sources(meta)[1], {"target_queue", "batch_size"})

C9_Case(t) ==
    /\ op = "create_lambda"
    /\ pc[t] = "done"
    /\ validate_params(args[t].meta, req_params)
    /\ OneQueueTrigger(args[t].meta)
    /\ args[t].meta[S3_PATH_NAME] \in world.files
    /\ args[t].meta["iam_role_name"] \in world.roles
    /\ ~start.lambdas[args[t].name].exists
    /\ fault = NoFault

C9_QueueBestEffort ==
    \A t \in Tasks :
        C9_Case(t) =>
        LET q == event_sources(args[t].meta)[1]
        IN  /\ result[t].status = "ok"
            /\ result[t].key = LambdaArn(args[t].name)
            /\ lambdas[args[t].name].exists
            /\ Cardinality(DeploymentRecord) = 1
            /\ CallsOf(t, "add_event_source") =
                 IF q["target_queue"] \in world.queues
                 THEN <<Call("add_event_source", args[t].name,
                             [source |-> <<"arn", "aws", "sqs", REGION,
                                           ACCOUNT_ID, q["target_queue"]>>,
                              batch_size |-> q["batch_size"],
                              start_position |-> "None"])>>
                 ELSE <<>>

C9_Witness ==
    \E t \in Tasks :
        /\ C9_Case(t)
        /\ event_sources(args[t].meta)[1]["target_queue"] \notin world.queues
        /\ result[t].status = "ok"
        /\ "debug" \in {logs[t][i] : i \in 1..Len(logs[t])}

(* C10: when the provider already has the function, reconcile issues no   *)
(* mutating call, invokes no binder and leaves the function as it was,     *)
(* and the run that reaches the existence check returns the existing       *)
(* function's description keyed by its ARN.                                 *)
C10_CreationOnly ==
    \A t \in Tasks :
        (op = "create_lambda" /\ start.lambdas[args[t].name].exists)
        => /\ Mutations(t) = {}
           /\ invoked[t] = <<>>
           /\ lambdas[args[t].name] = start.lambdas[args[t].name]
           /\ ( /\ pc[t] = "done"
                /\ validate_params(args[t].meta, req_params)
                /\ args[t].meta[S3_PATH_NAME] \in world.files
                /\ result[t].err # "ClientError" )
              => /\ result[t].status = "ok"
                 /\ result[t].key = LambdaArn(args[t].name)
                 /\ result[t].value.resource_name = args[t].name
                 /\ result[t].value.resource_meta = args[t].meta
                 /\ result[t].value.response.Configuration.Runtime =
                      start.lambdas[args[t].name].runtime
                 /\ logs[t] = <<"warn">>

C10_Witness ==
    \E t \in Tasks :
        /\ op = "create_lambda"
        /\ start.lambdas[args[t].name].exists
        /\ pc[t] = "done"
        /\ result[t].status = "ok"
        /\ Lower(args[t].meta["runtime"]) # start.lambdas[args[t].name].runtime
        /\ event_sources(args[t].meta) # <<>>
        /\ args[t].meta["iam_role_name"] \notin world.roles

(* A function descriptor with the five required fields and the artifact    *)
(* path, reconciled without a provider error on its reads.                 *)
C11_Case(t) ==
    /\ op = "create_lambda"
    /\ pc[t] = "done"
    /\ validate_params(args[t].meta, req_params)
    /\ Has(args[t].meta, S3_PATH_NAME)

(* C11 as stated: whenever the artifact or the role is absent, reconcile   *)
(* fails with a dependency error and issues no create call, whether or not *)
(* a function of that name exists.                                          *)
C11_DependencyAlways ==
    \A t \in Tasks :
        ( /\ C11_Case(t)
          /\ \/ args[t].meta[S3_PATH_NAME] \notin world.files
             \/ args[t].meta["iam_role_name"] \notin world.roles )
        => /\ result[t] = Error("DependencyError")
           /\ CallsOf(t, "create_lambda") = <<>>

(* C11: an absent artifact always fails reconcile with a dependency error  *)
(* after the artifact lookup alone; an absent role fails it with a         *)
(* dependency error only when no function of that name exists, and an      *)
(* existing function is returned without the role being looked up.  No     *)
(* create call is issued in any of these cases.                             *)
C11_DependencyUnlessExists ==
    \A t \in Tasks :
        C11_Case(t) =>
        LET meta == args[t].meta
            name == args[t].name
        IN  /\ meta[S3_PATH_NAME] \notin world.files
                  => /\ result[t] = Error("DependencyError")
                     /\ Ops(calls[t]) = {"is_file_exists"}
            /\ ( /\ meta[S3_PATH_NAME] \in world.files
                 /\ meta["iam_role_name"] \notin world.roles
                 /\ ~start.lambdas[name].exists )
                  => /\ result[t] = Error("DependencyError")
                     /\ Mutations(t) = {}
                     /\ ~lambdas[name].exists
                     /\ Last(calls[t]).op = "check_if_role_exists"
            /\ ( /\ meta[S3_PATH_NAME] \in world.files
                 /\ meta["iam_role_name"] \notin world.roles
                 /\ start.lambdas[name].exists )
                  => /\ result[t].status = "ok"
                     /\ result[t].key = LambdaArn(name)
                     /\ "check_if_role_exists" \notin Ops(calls[t])
                     /\ CallsOf(t, "create_lambda") = <<>>

C11_Witness ==
    \E t \in Tasks :
        /\ C11_Case(t)
        /\ args[t].meta[S3_PATH_NAME] \in world.files
        /\ args[t].meta["iam_role_name"] \notin world.roles
        /\ ~start.lambdas[args[t].name].exists
        /\ result[t] = Error("DependencyError")
        /\ fault.op = "create_lambda"

GroupsAtStart == {start.log_groups[i] : i \in 1..Len(start.log_groups)}

EndsIn(each, lambda_name) == each # <<>> /\ Last(each) = lambda_name

PositionsOf(t, o) == {k \in 1..Len(calls[t]) : calls[t][k].op = o}

(* A function removal all of whose provider calls were carried out *)
C12_Case(t) ==
    /\ op = "remove_lambdas"
    /\ pc[t] = "done"
    /\ logs[t] = <<"info">>

(* C12 as stated: a removal that goes through removes the function's       *)
(* trigger bindings and then deletes exactly the log groups whose name     *)
(* ends in the function's name.                                             *)
C12_DeletesEndingIn ==
    \A t \in Tasks :
        C12_Case(t) =>
        /\ {m \in esm : m.fn = Name(t)} = {}
        /\ \A g \in GroupsAtStart :
               EndsIn(g, Name(t)) <=> g \in DeletedGroups(calls[t])
        /\ \A i \in PositionsOf(t, "remove_trigger") :
               \A j \in PositionsOf(t, "delete_log_group_name") : i < j

(* C12: a removal that goes through removes the function's trigger         *)
(* bindings and then deletes exactly the log groups whose last             *)
(* '/'-separated segment is the function's name, in listing order; a group *)
(* whose name merely ends in the function's name is kept.  In every        *)
(* removal the trigger bindings are removed before any log group is        *)
(* deleted.                                                                 *)
C12_DeletesLastSegment ==
    \A t \in Tasks :
        (op = "remove_lambdas" /\ pc[t] = "done") =>
        LET mine == {g \in GroupsAtStart : Last(Split(g)) = <<Name(t)>>}
        IN  /\ DeletedGroups(calls[t]) \subseteq mine
            /\ \A j \in PositionsOf(t, "delete_log_group_name") :
                   \E i \in PositionsOf(t, "remove_trigger") : i < j
            /\ \A i \in PositionsOf(t, "remove_trigger") :
                   \A j \in PositionsOf(t, "delete_log_group_name") : i < j
            /\ C12_Case(t) =>
                   /\ {m \in esm : m.fn = Name(t)} = {}
                   /\ DeletedGroups(calls[t]) = mine
                   /\ log_groups = SelectSeq2(start.log_groups, GroupsAtStart \ mine)
                   /\ [k \in 1..Len(CallsOf(t, "delete_log_group_name")) |->
                         CallsOf(t, "delete_log_group_name")[k].arg.name]
                      = SelectSeq2(start.log_groups, mine)

C12_Witness ==
    \E t \in Tasks :
        /\ C12_Case(t)
        /\ Cardinality(DeletedGroups(calls[t])) = 3
        /\ \E g \in GroupsAtStart :
              /\ EndsIn(g, Name(t))
              /\ g \notin DeletedGroups(calls[t])
              /\ g \in {log_groups[i] : i \in 1..Len(log_groups)}

(* The create call and, after it, the re-fetch are among the calls of t *)
CreatedAndRefetched(cs) ==
    \E i, j \in 1..Len(cs) :
        /\ i < j
        /\ cs[i].op = "create_lambda"
        /\ cs[j].op = "get_function"

(* One step of the reconcile of t in which a binder runs *)
BinderRuns(t) == invoked'[t] # invoked[t] /\ invoked'[t] # <<>>

(* C13: within one function's reconcile the binders run one at a time in   *)
(* the order of event_sources: the binder of spec k runs in the k-th turn, *)
(* after the calls of all earlier binders, never before the create call    *)
(* and the re-fetch are done, and no binder runs once one has raised.      *)
C13_SequentialBinders ==
    /\ [](\A t \in Tasks :
            op = "create_lambda" =>
            /\ \A k \in 1..Len(invoked[t]) :
                   /\ invoked[t][k].i = k
                   /\ invoked[t][k].trigger_meta = args[t].meta["event_sources"][k]
            /\ invoked[t] # <<>> => CreatedAndRefetched(calls[t])
            /\ (pc[t] = "done" /\ result[t].status = "error")
                   => Len(invoked[t]) <= idx[t] - 1)
    /\ [][\A t \in Tasks :
            /\ BinderRuns(t) =>
                  /\ pc[t] = "triggers"
                  /\ result[t] = Pending
                  /\ CreatedAndRefetched(calls[t])
                  /\ Len(invoked'[t]) = Len(invoked[t]) + 1
                  /\ SubSeq(invoked'[t], 1, Len(invoked[t])) = invoked[t]
                  /\ Last(invoked'[t]).i = idx[t]
                  /\ idx'[t] = idx[t] + 1
                  /\ Len(calls'[t]) >= Len(calls[t])
                  /\ SubSeq(calls'[t], 1, Len(calls[t])) = calls[t]
                  /\ \A u \in Tasks \ {t} : invoked'[u] = invoked[u]
            /\ (result[t].status = "error" /\ run' = run)
                  => invoked'[t] = invoked[t]]_vars

C13_Witness ==
    \E t \in Tasks :
        /\ op = "create_lambda"
        /\ pc[t] = "done"
        /\ result[t].status = "ok"
        /\ Len(invoked[t]) = 2
        /\ invoked[t][1].binder # invoked[t][2].binder
        /\ Len(calls[t]) > 6

(* The calls a step adds to those of t *)
NewCalls(t) == SubSeq(calls'[t], Len(calls[t]) + 1, Len(calls'[t]))

(* A step in which the stream-shard binder runs on a complete spec for a   *)
(* stream the provider holds                                                *)
KinesisBinderRuns(t) ==
    /\ BinderRuns(t)
    /\ Last(invoked'[t]).binder = "_create_kinesis_stream_trigger_from_meta"
    /\ validate_params(Last(invoked'[t]).trigger_meta,
                       {"target_stream", "batch_size", "starting_position"})
    /\ streams[Last(invoked'[t]).trigger_meta["target_stream"]] # "ABSENT"

(* The inline policy call and the subscription call of the stream-shard    *)
(* binder of t for the spec it was invoked with last                        *)
AttachCall(t) ==
    LET s == Last(invoked[t]).trigger_meta["target_stream"]
    IN  Call("attach_inline_policy", args[t].meta["iam_role_name"],
             [policy_name |-> <<s, "KinesisTo", args[t].name, "Lambda">>,
              resource |-> StreamArn(s),
              invoke |-> LambdaArn(args[t].name)])

AddCall(t) ==
    LET tm == Last(invoked[t]).trigger_meta
    IN  Call("add_event_source", args[t].name,
             [source |-> StreamArn(tm["target_stream"]),
              batch_size |-> tm["batch_size"],
              start_position |-> tm["starting_position"]])

(* C14: the stream-shard binder reads the stream once and waits once for   *)
(* 120 seconds exactly when the stream is not active; it then attaches the *)
(* inline policy <stream>KinesisTo<function>Lambda to the execution role   *)
(* and waits 10 seconds; only after that, and without reading the stream   *)
(* again, it issues add-event-source with the configured batch size and    *)
(* starting position.  When the attach fails neither the wait nor the      *)
(* add-event-source call follows, and no other step of a reconcile         *)
(* subscribes the function to a stream or waits for an activation.         *)
C14_PolicyBeforeSubscription ==
    [][\A t \in Tasks :
         /\ KinesisBinderRuns(t) =>
               LET s == Last(invoked'[t]).trigger_meta["target_stream"]
               IN  /\ NewCalls(t) = <<Call("get_stream", s, None)>>
                                    \o (IF streams[s] # "ACTIVE"
                                        THEN <<Sleep(120)>> ELSE <<>>)
                   /\ pc'[t] = "kinesis_policy"
                   /\ result'[t] = Pending
                   /\ esm' = esm
         /\ (pc[t] = "kinesis_policy" /\ pc'[t] # pc[t]) =>
               IF fault.op = "attach_inline_policy"
               THEN /\ NewCalls(t) = <<AttachCall(t)>>
                    /\ pc'[t] = "done"
                    /\ result'[t] = Error("ClientError")
                    /\ esm' = esm
               ELSE /\ NewCalls(t) = <<AttachCall(t), Sleep(10)>>
                    /\ pc'[t] = "kinesis_subscribe"
                    /\ result'[t] = Pending
                    /\ esm' = esm
         /\ (pc[t] = "kinesis_subscribe" /\ pc'[t] # pc[t]) =>
               /\ SubSeq(calls[t], Len(calls[t]) - 1, Len(calls[t]))
                     = <<AttachCall(t), Sleep(10)>>
               /\ NewCalls(t) = <<AddCall(t)>>
               /\ IF fault.op = "add_event_source"
                  THEN /\ pc'[t] = "done"
                       /\ result'[t] = Error("ClientError")
                       /\ esm' = esm
                  ELSE /\ pc'[t] = "triggers"
                       /\ result'[t] = Pending
                       /\ esm' = esm \cup {[fn |-> args[t].name,
                                             source |-> AddCall(t).arg.source]}
         /\ (op = "create_lambda" /\ run' = run) =>
               \A i \in 1..Len(NewCalls(t)) :
                  /\ (/\ NewCalls(t)[i].op = "add_event_source"
                      /\ \E s \in StreamNames :
                            NewCalls(t)[i].arg.source = StreamArn(s))
                        => pc[t] = "kinesis_subscribe"
                  /\ NewCalls(t)[i] = Sleep(120) => KinesisBinderRuns(t)]_vars

C14_Witness ==
    \E t \in Tasks :
        /\ op = "create_lambda"
        /\ pc[t] = "done"
        /\ result[t].status = "ok"
        /\ \E k \in 1..Len(invoked[t]) :
              invoked[t][k].binder = "_create_kinesis_stream_trigger_from_meta"
        /\ \E i, j \in 1..Len(calls[t]) :
              /\ calls[t][i] = Sleep(120)
              /\ calls[t][i + 1].op = "attach_inline_policy"
              /\ calls[t][i + 2] = Sleep(10)
              /\ j = i + 3
              /\ calls[t][j].op = "add_event_source"
              /\ calls[t][j].arg.start_position = "TRIM_HORIZON"
        /\ [fn |-> args[t].name, source |-> StreamArn("s1")] \in esm

HeadroomRead(t) == "get_unresolved_concurrent_executions" \in Ops(calls[t])

(* A reconcile of a descriptor with the setting that is past lines 103-115 *)
C15_Case(t) ==
    /\ op = "create_lambda"
    /\ Has(args[t].meta, "concurrent_executions")
    /\ CreatedAndRefetched(calls[t])
    /\ pc[t] \in {"triggers", "done"}

(* C15: with concurrent_executions = c configured, the override is put     *)
(* exactly when c is at most the account's unreserved headroom at that     *)
(* point, once and with the value c; when c exceeds the headroom no put    *)
(* is issued, a warning is logged, and reconcile goes on to bind every     *)
(* trigger and to return the entry of the function.                         *)
C15_SoftQuota ==
    \A t \in Tasks :
        C15_Case(t) =>
        LET c == args[t].meta["concurrent_executions"]
            name == args[t].name
            puts == CallsOf(t, "put_function_concurrency")
            unresolved == IF HeadroomRead(t) THEN unresolved_exec[t] ELSE headroom
        IN  /\ puts # <<>> <=> c <= unresolved
            /\ puts # <<>> =>
                  puts = <<Call("put_function_concurrency", name,
                                [concurrent_executions |-> c])>>
            /\ c > unresolved
                  => /\ "warn" \in {logs[t][i] : i \in 1..Len(logs[t])}
                     /\ headroom = unresolved
                     /\ pc[t] = "done" =>
                           /\ result[t].err \in {"none", "ClientError"}
                           /\ result[t].err = "ClientError"
                                 => fault.op = "add_event_source"
                           /\ result[t].status = "ok" =>
                                 /\ result[t].key = LambdaArn(name)
                                 /\ Len(invoked[t]) = Len(event_sources(args[t].meta))
                           /\ fault = NoFault => result[t].status = "ok"

(* C16: a stream reconcile that meets no provider error returns, on the    *)
(* existing path and on the created path alike, one entry keyed by the     *)
(* stream's ARN, the identifier the stream-shard binder reads under        *)
(* StreamDescription, whose value is the description built from the        *)
(* response, the name and the meta.                                         *)
C16_StreamResult ==
    \A t \in Tasks :
        ( /\ op = "create_kinesis_stream"
          /\ pc[t] = "done"
          /\ result[t].err # "ClientError" )
        => /\ result[t].status = "ok"
           /\ result[t].key = get_stream(args[t].name).StreamDescription.StreamARN
           /\ result[t].value.resource_name = args[t].name
           /\ result[t].value.resource_meta = args[t].meta
           /\ Cardinality(DeploymentRecord) = 1

(* C17: a reconcile that has created the function ends with the record    *)
(* entry of that function: no finished run leaves a function it created    *)
(* in the provider without an entry for it in its output.                  *)
C17_NoOrphanedFunction ==
    \A t \in Tasks :
        ( /\ op = "create_lambda"
          /\ pc[t] = "done"
          /\ ~start.lambdas[args[t].name].exists
          /\ lambdas[args[t].name].exists
          /\ CallsOf(t, "create_lambda") # <<>> )
        => /\ result[t].status = "ok"
           /\ result[t].key = LambdaArn(args[t].name)
           /\ \E e \in DeploymentRecord : e.key = LambdaArn(args[t].name)

(* C18: with several function reconciles in flight, every concurrency     *)
(* override is put in a state where its value is at most the account's    *)
(* unreserved headroom at that moment.                                     *)
C18_PutWithinHeadroom ==
    [][\A t \in Tasks :
         \A k \in (Len(calls[t]) + 1)..Len(calls'[t]) :
            calls'[t][k].op = "put_function_concurrency"
               => calls'[t][k].arg.concurrent_executions <= headroom]_vars

(* The step in which the function remover of t runs and ends on a warning *)
RemovalStopsOnNotFound(t) ==
    /\ op = "remove_lambdas"
    /\ pc[t] = "remove"
    /\ pc'[t] = "done"
    /\ logs'[t] = <<"warn">>

(* C19: in a function removal delete-function is the first provider call,  *)
(* followed by the trigger-binding removal, the log-group listing and the  *)
(* deletions; a call answered with not-found is the last call of the       *)
(* removal, which then returns without raising and leaves everything the   *)
(* later steps would have removed as it was, so that a function that is    *)
(* already gone keeps its trigger bindings and log groups.                  *)
C19_DeleteFirstThenSkip ==
    /\ [](\A t \in Tasks :
            (op = "remove_lambdas" /\ pc[t] = "done") =>
            /\ calls[t] # <<>>
            /\ PositionsOf(t, "delete_lambda") = {1}
            /\ PositionsOf(t, "remove_trigger") \subseteq {2}
            /\ PositionsOf(t, "get_log_group_names") \subseteq {3}
            /\ PositionsOf(t, "delete_log_group_name") \subseteq 4..Len(calls[t])
            /\ logs[t] = <<"warn">> => result[t] = ReturnedNone
            /\ result[t].status = "error" => fault.code # "ResourceNotFoundException"
            /\ (~start.lambdas[Name(t)].exists /\ fault.op # "delete_lambda")
                  => /\ Len(calls[t]) = 1
                     /\ logs[t] = <<"warn">>
                     /\ log_groups = start.log_groups)
    /\ [][\A t \in Tasks :
            RemovalStopsOnNotFound(t) =>
            LET last == Last(calls'[t])
                gone == DeletedGroups(SubSeq(calls'[t], 1, Len(calls'[t]) - 1))
            IN  /\ Answer(last) = "ResourceNotFoundException"
                /\ result'[t] = ReturnedNone
                /\ last.op = "delete_lambda"
                      => (lambdas' = lambdas /\ esm' = esm /\ log_groups' = log_groups)
                /\ last.op = "remove_trigger"
                      => (esm' = esm /\ log_groups' = log_groups)
                /\ last.op = "delete_log_group_name"
                      => /\ last.arg.name \notin gone
                         /\ log_groups' = SelectSeq2(log_groups,
                               {log_groups[i] : i \in 1..Len(log_groups)} \ gone)]_vars

C19_Witness ==
    \E t \in Tasks :
        /\ op = "remove_lambdas"
        /\ pc[t] = "done"
        /\ ~start.lambdas[Name(t)].exists
        /\ Len(calls[t]) = 1
        /\ logs[t] = <<"warn">>
        /\ result[t] = ReturnedNone
        /\ \E m \in esm : m.fn = Name(t)
        /\ \E i \in 1..Len(log_groups) : Last(Split(log_groups[i])) = <<Name(t)>>

====
